---- MODULE Spec2Model ----
(***************************************************************************)
(* State-machine model of game_start_ver.py: the fixed-tick loop Game.run, *)
(* the entities (Player, Bullet, Enemy, Boss), the QuadTree broad phase,   *)
(* Game.check_collisions and the level / story / upgrade progression.      *)
(*                                                                         *)
(* Conventions                                                             *)
(*  - a pygame Rect is a record [x, y, w, h] of integers; left = x,        *)
(*    right = x + w, top = y, bottom = y + h;                              *)
(*  - a sprite Group is a sequence in insertion order (pygame keeps the    *)
(*    sprites of a Group in a dict, iterated in insertion order);          *)
(*  - an upgrade multiplier 1 + 0.2 * k (shield: 0.2 * k) is stored as the *)
(*    number k of times the upgrade was applied;                           *)
(*  - timers that accumulate 1000 / FPS per update are stored as the       *)
(*    number of accumulations.                                             *)
(***************************************************************************)
EXTENDS Integers, Sequences, FiniteSets, TLC

VARIABLES
    state,            \* Game.state
    difficulty,       \* Game.difficulty
    level,            \* Game.level
    score,            \* Game.score
    high_score,       \* Game.high_score
    current_chapter,  \* Game.story_manager.current_chapter
    player,           \* Game.player (rect, health, upgrades, shield, shot clock)
    bullets,          \* Game.player.bullets
    enemies,          \* Game.enemies (enemies, bosses and boss-fired bullets)
    quadtree,         \* Game.quadtree
    running,          \* local `running` of Game.run
    frames,           \* number of loop iterations of Game.run so far
    pass,             \* record of what the last frame's update did (history)
    inserted,         \* QuadTree exercise: objects accepted by insert so far
    qrect,            \* QuadTree exercise: last query rectangle
    found             \* QuadTree exercise: result of the last query

vars == <<state, difficulty, level, score, high_score, current_chapter, player,
          bullets, enemies, quadtree, running, frames, pass, inserted, qrect, found>>

gameVars == <<state, difficulty, level, score, high_score, current_chapter,
              player, bullets, enemies, running, frames, pass>>

qtVars == <<inserted, qrect, found>>

----------------------------------------------------------------------------
(* Config *)

SCREEN_WIDTH == 800
SCREEN_HEIGHT == 600
FPS == 60
PLAYER_SPEED == 5
BULLET_SPEED == 10
ENEMY_SPEED == 2

----------------------------------------------------------------------------
(* Rectangles *)

Rect(x, y, w, h) == [x |-> x, y |-> y, w |-> w, h |-> h]

\* pygame.Rect.colliderect: the interiors overlap; rectangles that only touch
\* along an edge do not collide.
colliderect(a, b) ==
    /\ a.x < b.x + b.w
    /\ b.x < a.x + a.w
    /\ a.y < b.y + b.h
    /\ b.y < a.y + a.h

----------------------------------------------------------------------------
(* QuadTree.  A boundary is <<x, y, w, h>>; subdivide halves w and h with  *)
(* true division, so boundaries are kept multiplied by QScale to stay      *)
(* integral: 800 and 600 halve exactly seven times at this scale.          *)

QScale == 2 * 2 * 2 * 2

CAPACITY == 4

ScreenBoundary == <<0, 0, SCREEN_WIDTH * QScale, SCREEN_HEIGHT * QScale>>

QuadTree(boundary) ==
    [boundary |-> boundary, objects |-> <<>>, divided |-> FALSE, kids |-> <<>>]

\* kids = <<northwest, northeast, southwest, southeast>>
subdivide(t) ==
    LET x == t.boundary[1]
        y == t.boundary[2]
        w == t.boundary[3]
        h == t.boundary[4]
        nw == <<x, y, w \div 2, h \div 2>>
        ne == <<x + w \div 2, y, w \div 2, h \div 2>>
        sw == <<x, y + h \div 2, w \div 2, h \div 2>>
        se == <<x + w \div 2, y + h \div 2, w \div 2, h \div 2>>
    IN  [t EXCEPT !.kids = <<QuadTree(nw), QuadTree(ne), QuadTree(sw), QuadTree(se)>>,
                  !.divided = TRUE]

\* QuadTree._intersects: closed comparison of rect against the node boundary
intersects(boundary, rect) ==
    ~ \/ (rect.x + rect.w) * QScale < boundary[1]
      \/ rect.x * QScale > boundary[1] + boundary[3]
      \/ (rect.y + rect.h) * QScale < boundary[2]
      \/ rect.y * QScale > boundary[2] + boundary[4]

RECURSIVE insert(_, _)
RECURSIVE insertKids(_, _, _)

RECURSIVE insertKids_all(_, _, _)

\* a chain that offers the object to every child instead of stopping at the
\* first one that accepts it
insertKids_all(t, obj, i) ==
    IF i > Len(t.kids) THEN [ok |-> FALSE, tree |-> t]
    ELSE LET r == insert(t.kids[i], obj)
             u == [t EXCEPT !.kids[i] = r.tree]
             rest == insertKids_all(u, obj, i + 1)
         IN  [ok |-> r.ok \/ rest.ok, tree |-> rest.tree]

\* the `or` chain of QuadTree.insert over the four children, from child i on:
\* the first child that accepts the object keeps it
insertKids(t, obj, i) ==
    IF i > Len(t.kids) THEN [ok |-> FALSE, tree |-> t]
    ELSE LET r == insert(t.kids[i], obj)
             u == [t EXCEPT !.kids[i] = r.tree]
         IN  IF r.ok THEN [ok |-> TRUE, tree |-> u]
             ELSE insertKids(u, obj, i + 1)

\* QuadTree.insert: [ok |-> the returned bool, tree |-> the node afterwards]
insert(t, obj) ==
    IF ~intersects(t.boundary, obj.rect) THEN [ok |-> FALSE, tree |-> t]
    ELSE IF Len(t.objects) < CAPACITY
         THEN [ok |-> TRUE, tree |-> [t EXCEPT !.objects = Append(@, obj)]]
         ELSE insertKids(IF t.divided THEN t ELSE subdivide(t), obj, 1)

RECURSIVE query(_, _)

\* QuadTree.query: the objects appended to `found`, in order
query(t, rect) ==
    IF ~intersects(t.boundary, rect) THEN <<>>
    ELSE SelectSeq(t.objects, LAMBDA o : colliderect(rect, o.rect))
         \o (IF t.divided
             THEN query(t.kids[1], rect) \o query(t.kids[2], rect)
                  \o query(t.kids[3], rect) \o query(t.kids[4], rect)
             ELSE <<>>)

----------------------------------------------------------------------------
(* Difficulty, GameState *)

\* Difficulty.value; "speed" (1, 1.5, 2) is kept multiplied by 10
Difficulty ==
    [EASY   |-> [enemies |-> 5,  speed10 |-> 10, health |-> 1],
     NORMAL |-> [enemies |-> 8,  speed10 |-> 15, health |-> 2],
     HARD   |-> [enemies |-> 12, speed10 |-> 20, health |-> 3]]

GameState == {"menu", "game", "game_over", "victory", "story", "upgrade"}

UpgradeTypes == {"speed", "damage", "fire_rate", "shield"}

\* int(v) of pygame's Rect setters for v = n / d: truncation toward zero
Trunc(n, d) == IF n >= 0 THEN n \div d ELSE -((-n) \div d)

----------------------------------------------------------------------------
(* Player *)

PLAYER_W == 50
PLAYER_H == 40
PLAYER_HEALTH == 100
shoot_delay == 250
\* Player.shield_timer >= shield_duration (3000) first holds after 181
\* additions of 1000 / 60 in double arithmetic (180 additions give 2999.99...)
ShieldUpdates == 181
CONTACT_DAMAGE == 20
LEVEL_HEAL == 20

\* Player.__init__; since_shot is pygame.time.get_ticks() - last_shot, kept
\* only up to shoot_delay + 1 (the gate of shoot cannot tell larger values apart)
Player ==
    [x |-> SCREEN_WIDTH \div 2 - 25, y |-> SCREEN_HEIGHT - 50,
     health |-> PLAYER_HEALTH, max_health |-> PLAYER_HEALTH,
     upgrades |-> [speed |-> 0, damage |-> 0, fire_rate |-> 0, shield |-> 0],
     shield_active |-> FALSE, shield_timer |-> 0, since_shot |-> 0]

PlayerRect(p) == Rect(p.x, p.y, PLAYER_W, PLAYER_H)

\* self.speed * self.upgrades["speed"] = 5 * (1 + 0.2 k) = 5 + k
PlayerStep(p) == Trunc(PLAYER_SPEED * (10 + 2 * p.upgrades.speed), 10)

\* Player.update, the movement part: four tests in sequence, each against
\* the rectangle as the previous ones left it
Player_move(p, keys) ==
    LET x1 == IF "LEFT" \in keys /\ p.x > 0 THEN p.x - PlayerStep(p) ELSE p.x
        x2 == IF "RIGHT" \in keys /\ x1 + PLAYER_W < SCREEN_WIDTH
              THEN x1 + PlayerStep(p) ELSE x1
        y1 == IF "UP" \in keys /\ p.y > 0 THEN p.y - PlayerStep(p) ELSE p.y
        y2 == IF "DOWN" \in keys /\ y1 + PLAYER_H < SCREEN_HEIGHT
              THEN y1 + PlayerStep(p) ELSE y1
    IN  [p EXCEPT !.x = x2, !.y = y2]

\* a shield that ends with the update that brings the timer to 180 periods
Player_shield_short(p) ==
    IF p.shield_active
    THEN IF p.shield_timer + 1 >= 180
         THEN [p EXCEPT !.shield_active = FALSE, !.shield_timer = 0]
         ELSE [p EXCEPT !.shield_timer = @ + 1]
    ELSE p

\* Player.update, the shield part
Player_shield(p) ==
    IF p.shield_active
    THEN IF p.shield_timer + 1 >= ShieldUpdates
         THEN [p EXCEPT !.shield_active = FALSE, !.shield_timer = 0]
         ELSE [p EXCEPT !.shield_timer = @ + 1]
    ELSE p

Player_update(p, keys) == Player_shield(Player_move(p, keys))

activate_shield_unlocked(p) == [p EXCEPT !.shield_active = TRUE, !.shield_timer = 0]

\* Player.activate_shield
activate_shield(p) ==
    IF p.upgrades.shield > 0
    THEN [p EXCEPT !.shield_active = TRUE, !.shield_timer = 0]
    ELSE p

----------------------------------------------------------------------------
(* Bullet *)

BULLET_W == 5
BULLET_H == 15
BULLET_DAMAGE == 10

\* Bullet(x, y) as Player.shoot leaves it: centerx = x, bottom = y and
\* damage = 10 * upgrades["damage"] = 10 + 2 k; kdamage remembers k
Bullet(x, y, k) ==
    [x |-> x - BULLET_W \div 2, y |-> y - BULLET_H,
     damage |-> Trunc(BULLET_DAMAGE * (10 + 2 * k), 10), kdamage |-> k]

BulletRect(b) == Rect(b.x, b.y, BULLET_W, BULLET_H)

\* a gate that lets every call through
CanShoot_always(p) == TRUE

\* the test of Player.shoot: now - last_shot > shoot_delay / fire_rate
CanShoot(p) == p.since_shot * (10 + 2 * p.upgrades.fire_rate) > shoot_delay * 10

\* Player.shoot: <<player, bullets>> afterwards
Player_shoot(p, bs) ==
    IF CanShoot(p)
    THEN <<[p EXCEPT !.since_shot = 0],
           Append(bs, Bullet(p.x + PLAYER_W \div 2, p.y, p.upgrades.damage))>>
    ELSE <<p, bs>>

\* Bullet.update of a player bullet, then the Group without the killed ones
Bullet_update(b) == [b EXCEPT !.y = @ - BULLET_SPEED]

BulletKilled(b) == b.y + BULLET_H < 0

bullets_update(bs) ==
    LET moved == [i \in 1..Len(bs) |-> Bullet_update(bs[i])]
    IN  SelectSeq(moved, LAMBDA b : ~BulletKilled(b))

----------------------------------------------------------------------------
(* Enemy, Boss and the boss-fired Bullet, one record shape for the members  *)
(* of Game.enemies.  speed10 is the speed multiplied by 10.  Three fields    *)
(* are history, read by no handler: phase_updates counts the updates a      *)
(* Boss has spent in its current pattern, side_lens and circle_lens hold    *)
(* the lengths, in updates, of the side-to-side and circular phases it has  *)
(* completed.                                                               *)

ENEMY_W == 40
ENEMY_H == 40
BOSS_HEALTH == 50
attack_delay == 1000
\* Boss.attack_timer >= attack_delay first holds after 61 additions of
\* 1000 / 60 in double arithmetic (60 additions give 999.99...)
AttackUpdates == 61
ENTRANCE_Y == 50
SIDE_TICKS == 200
CIRCLE_TICKS == 300

Enemy(diff, x, y) ==
    [kind |-> "enemy", x |-> x, y |-> y,
     health |-> diff.health, speed10 |-> ENEMY_SPEED * diff.speed10,
     pattern |-> 0, pattern_timer |-> 0, attack_timer |-> 0,
     phase_updates |-> 0, side_lens |-> {}, circle_lens |-> {}]

Boss(diff) ==
    [kind |-> "boss", x |-> SCREEN_WIDTH \div 2 - 40, y |-> -100,
     health |-> BOSS_HEALTH * diff.health, speed10 |-> ENEMY_SPEED * diff.speed10,
     pattern |-> 0, pattern_timer |-> 0, attack_timer |-> 0,
     phase_updates |-> 0, side_lens |-> {}, circle_lens |-> {}]

\* the Bullet that Game.run adds to Game.enemies for a boss attack:
\* Bullet(enemy.rect.centerx, enemy.rect.bottom) with the speed negated
BossBullet(boss) ==
    [kind |-> "bullet", x |-> boss.x + ENEMY_W \div 2 - BULLET_W \div 2,
     y |-> boss.y + ENEMY_H - BULLET_H,
     health |-> 1, speed10 |-> -(BULLET_SPEED * 10),
     pattern |-> 0, pattern_timer |-> 0, attack_timer |-> 0,
     phase_updates |-> 0, side_lens |-> {}, circle_lens |-> {}]

EnemyRect(e) ==
    IF e.kind = "bullet" THEN Rect(e.x, e.y, BULLET_W, BULLET_H)
    ELSE Rect(e.x, e.y, ENEMY_W, ENEMY_H)

\* isinstance(enemy, Boss)
IsBoss(e) == e.kind = "boss"

\* Enemy.update with the outcome <<rx, ry>> of reset_position's two draws
Enemy_update(e, rx, ry) ==
    LET y1 == Trunc(e.y * 10 + e.speed10, 10)
    IN  IF y1 > SCREEN_HEIGHT THEN [e EXCEPT !.x = rx, !.y = ry]
        ELSE [e EXCEPT !.y = y1]

\* floor(sin(0.05 t) * 3), t = 1..201: int(rect.x + sin(0.05 t) * 3) - rect.x
SideStep ==
    <<0, 0, 0, 0, 0, 0, 1, 1, 1, 1, 1, 1, 1, 1, 2, 2, 2, 2, 2, 2,
      2, 2, 2, 2, 2, 2, 2, 2, 2, 2, 2, 2, 2, 2, 2, 2, 2, 2, 2, 2,
      2, 2, 2, 2, 2, 2, 2, 2, 1, 1, 1, 1, 1, 1, 1, 1, 0, 0, 0, 0,
      0, 0, -1, -1, -1, -1, -1, -1, -1, -2, -2, -2, -2, -2, -2, -2, -2, -3, -3, -3,
      -3, -3, -3, -3, -3, -3, -3, -3, -3, -3, -3, -3, -3, -3, -3, -3, -3, -3, -3, -3,
      -3, -3, -3, -3, -3, -3, -3, -3, -3, -3, -3, -2, -2, -2, -2, -2, -2, -2, -1, -1,
      -1, -1, -1, -1, -1, 0, 0, 0, 0, 0, 0, 0, 1, 1, 1, 1, 1, 1, 1, 1,
      2, 2, 2, 2, 2, 2, 2, 2, 2, 2, 2, 2, 2, 2, 2, 2, 2, 2, 2, 2,
      2, 2, 2, 2, 2, 2, 2, 2, 2, 2, 2, 2, 2, 1, 1, 1, 1, 1, 1, 1,
      1, 0, 0, 0, 0, 0, 0, 0, -1, -1, -1, -1, -1, -1, -1, -2, -2, -2, -2, -2,
      -2>>

CircleX ==
    <<409, 419, 429, 439, 449, 459, 468, 477, 486, 495, 504, 512, 521, 528, 536, 543, 550, 556, 562, 568,
      573, 578, 582, 586, 589, 592, 595, 597, 598, 599, 599, 599, 599, 598, 596, 594, 592, 589, 585, 581,
      577, 572, 567, 561, 555, 549, 542, 535, 527, 519, 511, 503, 494, 485, 476, 466, 457, 447, 438, 428,
      418, 408, 398, 388, 378, 368, 358, 348, 339, 329, 320, 311, 302, 294, 285, 277, 269, 262, 255, 248,
      242, 236, 230, 225, 221, 216, 212, 209, 206, 204, 202, 201, 200, 200, 200, 200, 201, 203, 205, 208,
      211, 214, 218, 223, 228, 233, 239, 245, 251, 258, 266, 273, 281, 289, 298, 307, 316, 325, 334, 344,
      353, 363, 373, 383, 393, 403, 413, 423, 433, 443, 452, 462, 471, 480, 490, 498, 507, 515, 523, 531,
      538, 545, 552, 558, 564, 570, 575, 579, 583, 587, 590, 593, 595, 597, 598, 599, 599, 599, 599, 597,
      596, 593, 591, 588, 584, 580, 575, 570, 565, 559, 553, 546, 539, 532, 524, 516, 508, 500, 491, 482,
      473, 463, 454, 444, 434, 424, 414, 404, 394, 384, 375, 365, 355, 345, 336, 326, 317, 308, 299, 291,
      282, 274, 267, 260, 253, 246, 240, 234, 229, 224, 219, 215, 211, 208, 206, 203, 202, 200, 200, 200,
      200, 201, 202, 204, 206, 209, 212, 216, 220, 224, 229, 235, 241, 247, 254, 261, 268, 276, 284, 292,
      301, 310, 319, 328, 337, 347, 357, 366, 376, 386, 396, 406, 416, 426, 436, 446, 455, 465, 474, 484,
      492, 501, 510, 518, 526, 533, 541, 548, 554, 560, 566, 571, 576, 581, 585, 588, 591, 594, 596, 598,
      599, 599, 599, 599, 598, 597, 595, 593, 590, 586, 583, 578, 574, 569, 563, 557, 551, 544, 537, 530,
      522>>

CircleY ==
    <<149, 149, 149, 149, 148, 147, 146, 146, 145, 143, 142, 141, 139, 138, 136, 134, 132, 131, 129, 127,
      124, 122, 120, 118, 115, 113, 110, 108, 106, 103, 101, 98, 96, 93, 91, 88, 86, 83, 81, 79,
      76, 74, 72, 70, 68, 66, 64, 63, 61, 59, 58, 57, 55, 54, 53, 52, 52, 51, 50, 50,
      50, 50, 50, 50, 50, 50, 51, 51, 52, 53, 54, 55, 56, 57, 58, 60, 62, 63, 65, 67,
      69, 71, 73, 75, 77, 79, 82, 84, 87, 89, 91, 94, 96, 99, 101, 104, 106, 109, 111, 114,
      116, 118, 121, 123, 125, 127, 129, 131, 133, 135, 137, 138, 140, 141, 143, 144, 145, 146, 147, 148,
      148, 149, 149, 149, 149, 149, 149, 149, 149, 148, 148, 147, 146, 145, 144, 143, 142, 140, 139, 137,
      136, 134, 132, 130, 128, 126, 124, 121, 119, 117, 114, 112, 110, 107, 105, 102, 100, 97, 95, 92,
      90, 87, 85, 83, 80, 78, 76, 74, 71, 69, 67, 66, 64, 62, 60, 59, 58, 56, 55, 54,
      53, 52, 51, 51, 50, 50, 50, 50, 50, 50, 50, 50, 51, 51, 52, 53, 54, 55, 56, 58,
      59, 60, 62, 64, 66, 67, 69, 71, 74, 76, 78, 80, 83, 85, 87, 90, 92, 95, 97, 100,
      102, 105, 107, 110, 112, 114, 117, 119, 121, 124, 126, 128, 130, 132, 134, 136, 137, 139, 140, 142,
      143, 144, 145, 146, 147, 148, 148, 149, 149, 149, 149, 149, 149, 149, 149, 148, 148, 147, 146, 145,
      144, 143, 141, 140, 138, 137, 135, 133, 131, 129, 127, 125, 123, 121, 118, 116, 114, 111, 109, 106,
      104, 101, 99, 96, 94, 91, 89, 87, 84, 82, 79, 77, 75, 73, 71, 69, 67, 65, 63, 62,
      60>>

\* Boss.update: [e |-> the boss afterwards, fire |-> the returned bool]
Boss_update(e) ==
    LET pt == e.pattern_timer + 1
        at == e.attack_timer + 1
        moved ==
            IF e.pattern = 0
            THEN [e EXCEPT !.pattern_timer = pt, !.y = @ + 1,
                           !.pattern = IF e.y + 1 > ENTRANCE_Y THEN 1 ELSE 0]
            ELSE IF e.pattern = 1
            THEN [e EXCEPT !.x = @ + SideStep[pt],
                           !.pattern = IF pt > SIDE_TICKS THEN 2 ELSE 1,
                           !.pattern_timer = IF pt > SIDE_TICKS THEN 0 ELSE pt]
            ELSE [e EXCEPT !.x = CircleX[pt], !.y = CircleY[pt],
                           !.pattern = IF pt > CIRCLE_TICKS THEN 1 ELSE 2,
                           !.pattern_timer = IF pt > CIRCLE_TICKS THEN 0 ELSE pt]
        len == e.phase_updates + 1
        noted ==
            IF moved.pattern = e.pattern THEN [moved EXCEPT !.phase_updates = len]
            ELSE [moved EXCEPT !.phase_updates = 0,
                               !.side_lens = IF e.pattern = 1 THEN @ \cup {len} ELSE @,
                               !.circle_lens = IF e.pattern = 2 THEN @ \cup {len} ELSE @]
    IN  IF at >= AttackUpdates
        THEN [e |-> [noted EXCEPT !.attack_timer = 0], fire |-> TRUE]
        ELSE [e |-> [noted EXCEPT !.attack_timer = at], fire |-> FALSE]

\* Bullet.update of a boss-fired bullet (speed -10): it moves down and is
\* killed only above the screen
BossBullet_update(e) == [e EXCEPT !.y = Trunc(@ * 10 - e.speed10, 10)]

\* all_sprites.update() on one member of Game.enemies
Sprite_update(e, rx, ry) ==
    IF e.kind = "boss" THEN Boss_update(e).e
    ELSE IF e.kind = "bullet" THEN BossBullet_update(e)
    ELSE Enemy_update(e, rx, ry)

SpriteKilled(e) == e.kind = "bullet" /\ e.y + BULLET_H < 0

Resets(e) == e.kind = "enemy" /\ Trunc(e.y * 10 + e.speed10, 10) > SCREEN_HEIGHT

enemies_update(es, rx, ry) ==
    LET moved == [i \in 1..Len(es) |-> Sprite_update(es[i], rx, ry)]
    IN  SelectSeq(moved, LAMBDA e : ~SpriteKilled(e))


----------------------------------------------------------------------------
(* StoryManager *)

CHAPTERS == 5

\* a story of a single chapter
HasStory_short(ch) == ch < 1

\* StoryManager.get_current_story() is not None
HasStory(ch) == ch < CHAPTERS

\* an advance_story that reports two more chapters than there are
advance_story_longer(ch) == [ch |-> ch + 1, more |-> ch + 1 < CHAPTERS + 2]

\* StoryManager.advance_story: [ch |-> the cursor afterwards, more |-> result]
advance_story(ch) == [ch |-> ch + 1, more |-> ch + 1 < CHAPTERS]

----------------------------------------------------------------------------
(* Game: spawning and scoring *)

\* a count that leaves the level out
SpawnCount_base(diff, lvl) == diff.enemies

SpawnCount(diff, lvl) == diff.enemies + lvl

\* Game.spawn_enemies: the Group afterwards; every Enemy of the wave is
\* drawn at pos = <<x, y>>, one outcome of random.randrange(760) and
\* random.randrange(-100, -40)
spawn_enemies(es, diff, lvl, pos) ==
    es \o [i \in 1..SpawnCount(diff, lvl) |->
              IF lvl % 5 = 0 /\ i = 1 THEN Boss(diff)
              ELSE Enemy(diff, pos[1], pos[2])]

\* 10 * (5 if isinstance(enemy, Boss) else 1)
KillScore(e) == 10 * (IF IsBoss(e) THEN 5 ELSE 1)

Max(a, b) == IF a > b THEN a ELSE b
Min(a, b) == IF a < b THEN a ELSE b

----------------------------------------------------------------------------
(* Game.check_collisions.  pen and pbul are Game.enemies and               *)
(* Game.player.bullets as the pass finds them; the sprites do not move      *)
(* during the pass, and a killed sprite leaves its Groups but stays in the  *)
(* quadtree built at the start of the pass.                                 *)

RECURSIVE BuildTree(_, _, _)

\* for enemy in self.enemies: self.quadtree.insert(enemy), from index i on
BuildTree(t, pen, i) ==
    IF i > Len(pen) THEN t
    ELSE BuildTree(insert(t, [id |-> i, rect |-> EnemyRect(pen[i])]).tree, pen, i + 1)

\* the body of `if pygame.sprite.collide_rect(bullet, enemy)` for bullet bi
\* and the enemy j: ps = [hp, alive, score, hits] is the state of the pass
HitEnemy(ps, pen, bi, dmg, j) ==
    LET hp == ps.hp[j] - dmg
        killed == hp <= 0
    IN  [hp    |-> [ps.hp EXCEPT ![j] = hp],
         alive |-> [ps.alive EXCEPT ![j] = IF killed THEN FALSE ELSE @],
         score |-> IF killed THEN ps.score + KillScore(pen[j]) ELSE ps.score,
         hits  |-> Append(ps.hits, [b |-> bi, e |-> j, dmg |-> dmg, kill |-> killed])]

RECURSIVE HitCandidates(_, _, _, _, _, _)

\* for enemy in potential_collisions, from index k on
HitCandidates(ps, pen, pbul, bi, cands, k) ==
    IF k > Len(cands) THEN ps
    ELSE LET j == cands[k].id
             ps1 == IF colliderect(BulletRect(pbul[bi]), EnemyRect(pen[j]))
                    THEN HitEnemy(ps, pen, bi, pbul[bi].damage, j)
                    ELSE ps
         IN  HitCandidates(ps1, pen, pbul, bi, cands, k + 1)

RECURSIVE BulletPhase(_, _, _, _, _)

\* for bullet in self.player.bullets, from index bi on
BulletPhase(ps, tree, pen, pbul, bi) ==
    IF bi > Len(pbul) THEN ps
    ELSE BulletPhase(
             HitCandidates(ps, pen, pbul, bi, query(tree, BulletRect(pbul[bi])), 1),
             tree, pen, pbul, bi + 1)

\* bullet.kill(): the bullets that registered no hit stay in the Group
BulletsLeft(pbul, hits) ==
    LET hit == {hits[n].b : n \in 1..Len(hits)}
        RECURSIVE keep(_)
        keep(i) == IF i > Len(pbul) THEN <<>>
                   ELSE (IF i \in hit THEN <<>> ELSE <<pbul[i]>>) \o keep(i + 1)
    IN  keep(1)

\* the contact test without the test of the shield
Contacts_unshielded(p, pen, alive) ==
    LET RECURSIVE hitsFrom(_)
        hitsFrom(j) ==
            IF j > Len(pen) THEN <<>>
            ELSE (IF alive[j] /\ colliderect(PlayerRect(p), EnemyRect(pen[j]))
                  THEN <<j>> ELSE <<>>) \o hitsFrom(j + 1)
    IN  hitsFrom(1)

\* pygame.sprite.spritecollide(self.player, self.enemies, True), skipped
\* while the shield is active: the indices of the members hit, in order
Contacts(p, pen, alive) ==
    IF p.shield_active THEN <<>>
    ELSE LET RECURSIVE hitsFrom(_)
             hitsFrom(j) ==
                 IF j > Len(pen) THEN <<>>
                 ELSE (IF alive[j] /\ colliderect(PlayerRect(p), EnemyRect(pen[j]))
                       THEN <<j>> ELSE <<>>) \o hitsFrom(j + 1)
         IN  hitsFrom(1)

\* the members of Game.enemies after the pass, with the health the pass left
Survivors(pen, hp, alive) ==
    LET RECURSIVE rest(_)
        rest(j) == IF j > Len(pen) THEN <<>>
                   ELSE (IF alive[j] THEN <<[pen[j] EXCEPT !.health = hp[j]]>> ELSE <<>>)
                        \o rest(j + 1)
    IN  rest(1)

\* a threshold one level later
LAST_LEVEL_later == 15 + 1

\* the threshold of `if self.level > 15`
LAST_LEVEL == 15

\* a level_complete whose heal is not capped at max_health
level_complete_uncapped(g, diff, pos) ==
    LET lvl == g.level + 1
        adv == advance_story(g.chapter)
        toStory == lvl % 5 = 0 /\ adv.more
        g1 == [g EXCEPT !.level = lvl,
                        !.player.health = @ + LEVEL_HEAL,
                        !.chapter = IF lvl % 5 = 0 THEN adv.ch ELSE @,
                        !.state = IF toStory THEN "story" ELSE @,
                        !.enemies = IF toStory THEN g.enemies
                                    ELSE spawn_enemies(g.enemies, diff, lvl, pos),
                        !.spawned = ~toStory,
                        !.presize = Len(g.enemies)]
    IN  IF lvl > LAST_LEVEL
        THEN [g1 EXCEPT !.state = "victory", !.high_score = Max(@, g1.score)]
        ELSE g1

\* a level_complete that applies the every-third-level speed increase to
\* the wave it has just spawned
level_complete_faster(g, diff, pos) ==
    LET lvl == g.level + 1
        hp  == Min(g.player.max_health, g.player.health + LEVEL_HEAL)
        adv == advance_story(g.chapter)
        toStory == lvl % 5 = 0 /\ adv.more
        wave == IF toStory THEN g.enemies ELSE spawn_enemies(g.enemies, diff, lvl, pos)
        g1 == [g EXCEPT !.level = lvl,
                        !.player.health = hp,
                        !.chapter = IF lvl % 5 = 0 THEN adv.ch ELSE @,
                        !.state = IF toStory THEN "story" ELSE @,
                        !.enemies = IF lvl % 3 = 0
                                    THEN [i \in 1..Len(wave) |->
                                             [wave[i] EXCEPT !.speed10 = (@ * 11) \div 10]]
                                    ELSE wave,
                        !.spawned = ~toStory,
                        !.presize = Len(g.enemies)]
    IN  IF lvl > LAST_LEVEL
        THEN [g1 EXCEPT !.state = "victory", !.high_score = Max(@, g1.score)]
        ELSE g1

\* Game.level_complete on g = [state, level, score, high_score, chapter,
\* player, enemies, spawned]; pos is the draw of the wave it may spawn
level_complete(g, diff, pos) ==
    LET lvl == g.level + 1
        hp  == Min(g.player.max_health, g.player.health + LEVEL_HEAL)
        es  == IF lvl % 3 = 0
               THEN [i \in 1..Len(g.enemies) |->
                        [g.enemies[i] EXCEPT !.speed10 = (@ * 11) \div 10]]
               ELSE g.enemies
        adv == advance_story(g.chapter)
        toStory == lvl % 5 = 0 /\ adv.more
        g1 == [g EXCEPT !.level = lvl,
                        !.player.health = hp,
                        !.chapter = IF lvl % 5 = 0 THEN adv.ch ELSE @,
                        !.state = IF toStory THEN "story" ELSE @,
                        !.enemies = IF toStory THEN es ELSE spawn_enemies(es, diff, lvl, pos),
                        !.spawned = ~toStory,
                        !.presize = Len(es)]
    IN  IF lvl > LAST_LEVEL
        THEN [g1 EXCEPT !.state = "victory", !.high_score = Max(@, g1.score)]
        ELSE g1

\* a game_over that leaves the high score alone
game_over_unrecorded(g) == [g EXCEPT !.state = "game_over"]

\* Game.game_over / Game.victory on the same record
game_over(g) == [g EXCEPT !.state = "game_over", !.high_score = Max(@, g.score)]

\* Game.check_collisions.  upg: some kill of the pass drew random() < 0.1.
\* The result is the record of level_complete extended with the history of
\* the pass.
check_collisions(g, pbul, diff, upg, pos) ==
    LET pen  == g.enemies
        tree == BuildTree(QuadTree(ScreenBoundary), pen, 1)
        ps0  == [hp |-> [j \in 1..Len(pen) |-> pen[j].health],
                 alive |-> [j \in 1..Len(pen) |-> TRUE],
                 score |-> g.score, hits |-> <<>>]
        ps   == BulletPhase(ps0, tree, pen, pbul, 1)
        anyKill == \E n \in 1..Len(ps.hits) : ps.hits[n].kill
        cs   == Contacts(g.player, pen, ps.alive)
        hpc  == g.player.health - CONTACT_DAMAGE * Len(cs)
        alive2 == [j \in 1..Len(pen) |->
                      ps.alive[j] /\ ~(\E n \in 1..Len(cs) : cs[n] = j)]
        g1 == [g EXCEPT !.score = ps.score,
                        !.state = IF upg /\ anyKill THEN "upgrade" ELSE @,
                        !.player.health = hpc,
                        !.enemies = Survivors(pen, ps.hp, alive2)]
        g2 == IF Len(cs) > 0 /\ hpc <= 0 THEN game_over(g1) ELSE g1
        g3 == IF Len(g2.enemies) = 0 THEN level_complete(g2, diff, pos) ELSE g2
    IN  [g   |-> g3,
         tree |-> tree,
         bullets |-> BulletsLeft(pbul, ps.hits),
         anyKill |-> anyKill,
         hist |-> [ran |-> TRUE, pen |-> pen, pbul |-> pbul,
                   prect |-> PlayerRect(g.player),
                   shield |-> g.player.shield_active,
                   hp0 |-> g.player.health, hpc |-> hpc, sc0 |-> g.score,
                   lvl0 |-> g.level,
                   hits |-> ps.hits, contacts |-> cs,
                   survivors |-> {j \in 1..Len(pen) : alive2[j]},
                   completed |-> Len(g2.enemies) = 0,
                   spawned |-> g3.spawned, presize |-> g3.presize]]

NoPass ==
    [ran |-> FALSE, pen |-> <<>>, pbul |-> <<>>, prect |-> Rect(0, 0, 0, 0),
     shield |-> FALSE, hp0 |-> 0, hpc |-> 0, sc0 |-> 0, lvl0 |-> 0,
     hits |-> <<>>, contacts |-> <<>>, survivors |-> {},
     completed |-> FALSE, spawned |-> FALSE, presize |-> 0]

\* the loop `for enemy in self.enemies: if isinstance(enemy, Boss) and
\* enemy.update()` of Game.run: the Group afterwards (fired bullets are
\* added behind the members the loop iterates over)
RECURSIVE BossAttacks(_, _, _)
BossAttacks(es, i, n) ==
    IF i > n THEN es
    ELSE IF IsBoss(es[i])
         THEN LET r == Boss_update(es[i])
                  es1 == [es EXCEPT ![i] = r.e]
              IN  BossAttacks(IF r.fire THEN Append(es1, BossBullet(r.e)) ELSE es1,
                              i + 1, n)
         ELSE BossAttacks(es, i + 1, n)


----------------------------------------------------------------------------
(* Bounds of the model and the inputs the environment may supply *)

MaxFrames == 3
MaxBullets == 2
MaxUpgrade == 1
MaxQObjs == 5

\* pygame.key.get_pressed() during a frame
KeySets == {{}, {"SPACE"}, {"LEFT", "DOWN"}, {"RIGHT", "UP"}}

\* the time clock.tick(FPS) lets pass between two frames: the frame period,
\* or more when a frame is late (here: by more than shoot_delay)
FrameMs == {1000 \div FPS, shoot_delay + 1}

\* outcomes of <<random.randrange(760), random.randrange(-100, -40)>>
SpawnPoints == {<<390, -41>>, <<100, -100>>}

AnyPoint == CHOOSE pos \in SpawnPoints : TRUE

----------------------------------------------------------------------------
(* Game.new_game and the handlers of Game.run *)

\* Game.new_game with the difficulty d the key selected
new_game(d, pos) ==
    /\ difficulty' = d
    /\ player' = Player
    /\ bullets' = <<>>
    /\ enemies' = spawn_enemies(<<>>, Difficulty[d], 1, pos)
    /\ score' = 0
    /\ level' = 1
    /\ current_chapter' = 0
    /\ state' = "story"
    /\ pass' = [NoPass EXCEPT !.spawned = TRUE]
    /\ UNCHANGED <<high_score, quadtree, running, frames, qtVars>>

\* KEYDOWN K_1 / K_2 / K_3 in the menu
KeyNewGame ==
    /\ running /\ state = "menu"
    /\ \E d \in DOMAIN Difficulty, pos \in SpawnPoints : new_game(d, pos)

\* Game.__init__, with the loop of Game.run running or left
Constructed(run) ==
    /\ state = "menu"
    /\ difficulty = "NORMAL"
    /\ level = 1
    /\ score = 0
    /\ high_score = 0
    /\ current_chapter = 0
    /\ player = Player
    /\ bullets = <<>>
    /\ enemies = <<>>
    /\ quadtree = QuadTree(ScreenBoundary)
    /\ running = run
    /\ frames = 0
    /\ pass = NoPass
    /\ inserted = <<>>
    /\ qrect = Rect(0, 0, 0, 0)
    /\ found = <<>>

\* pygame.QUIT, or KEYDOWN K_ESCAPE in the menu: the loop ends, and
\* pygame.quit() and sys.exit() end the process, whose objects are gone
Quit ==
    /\ running
    /\ state' = "menu"
    /\ difficulty' = "NORMAL"
    /\ level' = 1
    /\ score' = 0
    /\ high_score' = 0
    /\ current_chapter' = 0
    /\ player' = Player
    /\ bullets' = <<>>
    /\ enemies' = <<>>
    /\ quadtree' = QuadTree(ScreenBoundary)
    /\ running' = FALSE
    /\ frames' = 0
    /\ pass' = NoPass
    /\ UNCHANGED qtVars

\* KEYDOWN K_SPACE in the story
KeyStory ==
    /\ running /\ state = "story"
    /\ IF ~HasStory(current_chapter)
       THEN /\ state' = "game"
            /\ UNCHANGED current_chapter
       ELSE LET adv == advance_story(current_chapter)
            IN  /\ current_chapter' = adv.ch
                /\ state' = IF ~HasStory(adv.ch) THEN "game" ELSE state
    /\ pass' = NoPass
    /\ UNCHANGED <<difficulty, level, score, high_score, player, bullets, enemies,
                   quadtree, running, frames, qtVars>>

\* an upgrade that arms the shield whatever was selected
apply_upgrade_shielding(p, t) ==
    [p EXCEPT !.upgrades[t] = @ + 1, !.shield_active = TRUE, !.shield_timer = 0]

\* Game.apply_upgrade
apply_upgrade(p, t) ==
    LET p1 == [p EXCEPT !.upgrades[t] = @ + 1]
    IN  IF t = "shield" THEN activate_shield(p1) ELSE p1

\* KEYDOWN K_1 .. K_4 in the upgrade screen
KeyUpgrade ==
    /\ running /\ state = "upgrade"
    /\ \E t \in UpgradeTypes :
          /\ player.upgrades[t] < MaxUpgrade
          /\ player' = apply_upgrade(player, t)
    /\ state' = "game"
    /\ pass' = NoPass
    /\ UNCHANGED <<difficulty, level, score, high_score, current_chapter, bullets,
                   enemies, quadtree, running, frames, qtVars>>

\* an escape that also leaves the story
KeyEscape_fromStory ==
    /\ running /\ state \in {"game_over", "victory", "game", "story"}
    /\ state' = "menu"
    /\ pass' = NoPass
    /\ UNCHANGED <<difficulty, level, score, high_score, current_chapter, player,
                   bullets, enemies, quadtree, running, frames, qtVars>>

\* KEYDOWN K_ESCAPE outside the menu, the story and the upgrade screen
KeyEscape ==
    /\ running /\ state \in {"game_over", "victory", "game"}
    /\ state' = "menu"
    /\ pass' = NoPass
    /\ UNCHANGED <<difficulty, level, score, high_score, current_chapter, player,
                   bullets, enemies, quadtree, running, frames, qtVars>>

\* KEYDOWN K_r after a game
KeyRestart ==
    /\ running /\ state \in {"game_over", "victory"}
    /\ \E pos \in SpawnPoints : new_game(difficulty, pos)

\* KEYDOWN K_SPACE in the game
KeyShoot ==
    /\ running /\ state = "game"
    /\ CanShoot(player) /\ Len(bullets) < MaxBullets
    /\ player' = Player_shoot(player, bullets)[1]
    /\ bullets' = Player_shoot(player, bullets)[2]
    /\ UNCHANGED <<state, difficulty, level, score, high_score, current_chapter,
                   enemies, quadtree, running, frames, pass, qtVars>>

\* KEYDOWN K_s in the game
KeyShield ==
    /\ running /\ state = "game"
    /\ player' = activate_shield(player)
    /\ UNCHANGED <<state, difficulty, level, score, high_score, current_chapter,
                   bullets, enemies, quadtree, running, frames, pass, qtVars>>

\* Game.show_story, the part that changes the state
show_story(st, ch) == IF st = "story" /\ ~HasStory(ch) THEN "game" ELSE st

\* clock.tick(FPS) as Player.shoot sees it
Elapse(p, dt) == [p EXCEPT !.since_shot = Min(@ + dt, shoot_delay + 1)]

\* One iteration of the loop of Game.run after its events, in the game:
\* shoot while K_SPACE is held, all_sprites.update(), bullets.update(),
\* check_collisions(), the boss attacks and the rendering; then the
\* clock.tick(FPS) that opens the next iteration.
FrameGame(keys, dt) ==
    LET shot == IF "SPACE" \in keys THEN Player_shoot(player, bullets)
                ELSE <<player, bullets>>
        p1   == Player_update(shot[1], keys)
        bs1  == bullets_update(shot[2])
        anyReset == \E i \in 1..Len(enemies) : Resets(enemies[i])
    IN  /\ Len(shot[2]) <= MaxBullets
        /\ \E rpos \in (IF anyReset THEN SpawnPoints ELSE {AnyPoint}) :
           LET es1 == enemies_update(enemies, rpos[1], rpos[2])
               g0  == [state |-> state, level |-> level, score |-> score,
                       high_score |-> high_score, chapter |-> current_chapter,
                       player |-> p1, enemies |-> es1,
                       spawned |-> FALSE, presize |-> 0]
           IN  \E r0 \in {check_collisions(g0, bs1, Difficulty[difficulty], FALSE, AnyPoint)} :
               \E upg \in (IF r0.anyKill THEN BOOLEAN ELSE {FALSE}),
                  pos \in (IF r0.hist.spawned THEN SpawnPoints ELSE {AnyPoint}) :
               \E r \in {IF upg \/ pos # AnyPoint
                         THEN check_collisions(g0, bs1, Difficulty[difficulty], upg, pos)
                         ELSE r0} :
                   /\ state' = show_story(r.g.state, r.g.chapter)
                   /\ level' = r.g.level
                   /\ score' = r.g.score
                   /\ high_score' = r.g.high_score
                   /\ current_chapter' = r.g.chapter
                   /\ player' = Elapse(r.g.player, dt)
                   /\ bullets' = r.bullets
                   /\ enemies' = BossAttacks(r.g.enemies, 1, Len(r.g.enemies))
                   /\ quadtree' = r.tree
                   /\ pass' = r.hist

\* One iteration outside the game: only the rendering (show_story) acts
FrameOther(dt) ==
    /\ state' = show_story(state, current_chapter)
    /\ player' = Elapse(player, dt)
    /\ pass' = NoPass
    /\ UNCHANGED <<level, score, high_score, current_chapter, bullets, enemies,
                   quadtree>>

Tick ==
    /\ running /\ frames < MaxFrames
    /\ frames' = frames + 1
    /\ \E keys \in KeySets, dt \in FrameMs :
          IF state = "game" THEN FrameGame(keys, dt) ELSE FrameOther(dt)
    /\ UNCHANGED <<difficulty, running, qtVars>>

Next ==
    \/ KeyNewGame
    \/ KeyStory
    \/ KeyUpgrade
    \/ KeyEscape
    \/ KeyRestart
    \/ KeyShoot
    \/ KeyShield
    \/ Tick
    \/ Quit

----------------------------------------------------------------------------
(* Initial states *)

\* Game.__init__ (the Player is created by the first new_game; the record
\* stands for the missing attribute and is read by no handler before that)
InitFresh == Constructed(TRUE)

(* States of a game in progress, at the start of a frame.  Each is a state   *)
(* the program reaches: the player stands on a point of its 5-pixel grid     *)
(* and has not shot for more than shoot_delay, the earlier waves and the     *)
(* other members of the current wave have been shot, and the members left    *)
(* have come down from their spawn rows to the rows given here.              *)

\* two enemies on top of each other in the line of fire of a player at
\* <<px, py>>, and a third one coming down on the player beside that line
Trio(d, px, py) ==
    <<Enemy(Difficulty[d], px - 5, py - 68),
      Enemy(Difficulty[d], px - 5, py - 68),
      Enemy(Difficulty[d], px + 30, py - 45)>>

\* four enemies to the left, and a fifth across the vertical midline of the
\* screen, in the line of fire of a player at <<380, py>>
Five(d, py) ==
    <<Enemy(Difficulty[d], 100, py - 62),
      Enemy(Difficulty[d], 100, py - 62),
      Enemy(Difficulty[d], 100, py - 62),
      Enemy(Difficulty[d], 100, py - 62),
      Enemy(Difficulty[d], 390, py - 62)>>

\* the boss of a wave 141 updates after level_complete spawned it (one
\* update in the frame that spawned it, two in each of the 70 frames
\* since), one bullet hit short of its death; the bullet it fired at its
\* 61st update has hit the player
BossLeft(d) ==
    <<[Boss(Difficulty[d]) EXCEPT !.y = 41, !.health = BULLET_DAMAGE,
                                  !.pattern_timer = 141, !.attack_timer = 19,
                                  !.phase_updates = 141]>>

\* the score of a game that shot every member of the waves up to lvl
RECURSIVE ScoreOfWaves(_, _)
ScoreOfWaves(d, lvl) ==
    IF lvl = 0 THEN 0
    ELSE ScoreOfWaves(d, lvl - 1) + 10 * SpawnCount(Difficulty[d], lvl)
         + (IF lvl % 5 = 0 THEN 40 ELSE 0)

MidGames ==
    {[d |-> d, lvl |-> lvl, hp |-> hp, px |-> 5, py |-> 550,
      wave |-> Trio(d, 5, 550), left |-> 3] :
        d \in DOMAIN Difficulty, lvl \in {4, 15}, hp \in {100}}
    \cup
    {[d |-> d, lvl |-> 15, hp |-> 20, px |-> 5, py |-> 550,
      wave |-> Trio(d, 5, 550), left |-> 3] : d \in DOMAIN Difficulty}
    \cup
    {[d |-> "EASY", lvl |-> 1, hp |-> 100, px |-> 380, py |-> 550,
      wave |-> Five("EASY", 550), left |-> 5]}
    \cup
    {[d |-> d, lvl |-> 5, hp |-> 80, px |-> 355, py |-> 90,
      wave |-> BossLeft(d), left |-> 0] : d \in DOMAIN Difficulty}

\* the member e one frame earlier, as the previous pass saw it
Earlier(e) ==
    IF IsBoss(e) THEN [e EXCEPT !.y = @ - 1]
    ELSE [e EXCEPT !.y = Trunc(@ * 10 - e.speed10, 10)]

InitMid ==
    \E m \in MidGames :
        /\ state = "game"
        /\ difficulty = m.d
        /\ level = m.lvl
        /\ score = ScoreOfWaves(m.d, m.lvl) - 10 * m.left
                   - (IF \E i \in 1..Len(m.wave) : IsBoss(m.wave[i]) THEN 50 ELSE 0)
        /\ high_score = 0
        /\ current_chapter = CHAPTERS + m.lvl \div 5
        /\ player = [Player EXCEPT !.x = m.px, !.y = m.py, !.health = m.hp,
                                   !.since_shot = shoot_delay + 1]
        /\ bullets = <<>>
        /\ enemies = m.wave
        /\ quadtree = BuildTree(QuadTree(ScreenBoundary),
                                [i \in 1..Len(m.wave) |-> Earlier(m.wave[i])], 1)
        /\ running = TRUE
        /\ frames = 0
        /\ pass = NoPass
        /\ inserted = <<>>
        /\ qrect = Rect(0, 0, 0, 0)
        /\ found = <<>>

Init == InitFresh \/ InitMid

Spec == Init /\ [][Next]_vars

----------------------------------------------------------------------------
(* The QuadTree on its own: objects are inserted one at a time into a tree  *)
(* over the screen, as the first loop of check_collisions does, and the     *)
(* tree is queried with a bullet's rect, as its second loop does.           *)

\* rects of enemies: left of the vertical midline, across it, right of it,
\* and above the screen (where enemies spawn)
QObjRects ==
    {Rect(100, 490, ENEMY_W, ENEMY_H), Rect(390, 490, ENEMY_W, ENEMY_H),
     Rect(600, 100, ENEMY_W, ENEMY_H), Rect(390, -100, ENEMY_W, ENEMY_H)}

\* rects of bullets
QQueryRects ==
    {Rect(403, 525, BULLET_W, BULLET_H), Rect(120, 500, BULLET_W, BULLET_H),
     Rect(403, 200, BULLET_W, BULLET_H)}

\* self.quadtree.insert(enemy)
QInsert ==
    /\ Len(inserted) < MaxQObjs
    /\ \E rect \in QObjRects :
          LET obj == [id |-> Len(inserted) + 1, rect |-> rect]
              r == insert(quadtree, obj)
          IN  /\ quadtree' = r.tree
              /\ inserted' = IF r.ok THEN Append(inserted, obj) ELSE inserted
    /\ qrect' = Rect(0, 0, 0, 0)
    /\ found' = <<>>
    /\ UNCHANGED gameVars

\* self.quadtree.query(bullet.rect)
QQuery ==
    /\ \E rect \in QQueryRects :
          /\ qrect' = rect
          /\ found' = query(quadtree, rect)
    /\ UNCHANGED <<quadtree, inserted, gameVars>>

NextQT ==
    \/ QInsert
    \/ QQuery

SpecQT == InitFresh /\ [][NextQT]_vars

----------------------------------------------------------------------------
(* Properties.  `pass` holds what the collision pass of the last frame saw   *)
(* and did: the enemy set pen and the bullets pbul it started from, the      *)
(* hits it registered in order, the members the player touched, and the      *)
(* members left.                                                            *)

\* the members of pass.pen a bullet hit killed
BulletKills == {pass.hits[n].e : n \in {m \in 1..Len(pass.hits) : pass.hits[m].kill}}

\* the members of pass.pen the player touched
Touched == {pass.contacts[n] : n \in 1..Len(pass.contacts)}

\* C1: after every tick of the game the player's rectangle lies inside the
\* screen: 0 <= left, right <= 800, 0 <= top, bottom <= 600.
C1_PlayerInsideScreen ==
    /\ 0 <= player.x
    /\ player.x + PLAYER_W <= 800
    /\ 0 <= player.y
    /\ player.y + PLAYER_H <= 600

\* C2: a query returns every object that insert accepted and whose rectangle
\* overlaps the query rectangle.
C2_NoFalseNegatives ==
    \A i \in 1..Len(inserted) :
        (qrect.w > 0 /\ colliderect(qrect, inserted[i].rect))
            => \E k \in 1..Len(found) : found[k].id = inserted[i].id

\* C3: once a hit has brought an enemy's health to 0 or less, no further hit
\* is registered against that enemy and its kill score is not awarded again.
C3_KilledOnce ==
    pass.ran =>
        \A m, n \in 1..Len(pass.hits) :
            (m < n /\ pass.hits[m].kill) => pass.hits[n].e # pass.hits[m].e

\* C4: each bullet reduces the health of at most one enemy, by exactly its
\* damage: 10 x the damage upgrade at the time it was fired.
C4_OneHitPerBullet ==
    pass.ran =>
        /\ \A m, n \in 1..Len(pass.hits) :
               m # n => pass.hits[m].b # pass.hits[n].b
        /\ \A n \in 1..Len(pass.hits) :
               pass.hits[n].dmg = 10 + 2 * pass.pbul[pass.hits[n].b].kdamage

\* C5: a bullet whose rectangle overlaps the rectangle of some member of
\* the enemy set when check_collisions runs registers a hit in that frame.
C5_BroadPhaseComplete ==
    pass.ran =>
        \A b \in 1..Len(pass.pbul) :
            (\E j \in 1..Len(pass.pen) :
                 colliderect(BulletRect(pass.pbul[b]), EnemyRect(pass.pen[j])))
                => \E n \in 1..Len(pass.hits) : pass.hits[n].b = b

\* C6: during a game the score changes only by kill awards, 10 for each
\* enemy killed that is not a Boss and 50 for each Boss killed; nothing else
\* changes it (a new game starts it again from 0).
C6_ScoreByKills ==
    [][IF pass'.ran /\ frames' = frames + 1
       THEN score' = score
                     + 10 * Cardinality({j \in BulletKills' : ~IsBoss(pass'.pen[j])})
                     + 50 * Cardinality({j \in BulletKills' : IsBoss(pass'.pen[j])})
       ELSE \/ score' = score
            \/ score' = 0 /\ level' = 1 /\ (state' = "story" \/ ~running')]_vars

\* C7: in every frame of the game, if the shield is active when collisions
\* are resolved, no enemy is removed by contact and the player's health is
\* not reduced; if it is inactive, every enemy overlapping the player is
\* removed and each of them reduces the player's health by exactly 20.
C7_ShieldAndContact ==
    pass.ran =>
        LET over == {j \in 1..Len(pass.pen) \ BulletKills :
                        colliderect(pass.prect, EnemyRect(pass.pen[j]))}
        IN  IF pass.shield
            THEN /\ pass.contacts = <<>>
                 /\ pass.survivors = (1..Len(pass.pen)) \ BulletKills
                 /\ pass.hpc = pass.hp0
                 /\ player.health >= pass.hp0
            ELSE /\ Touched = over
                 /\ Len(pass.contacts) = Cardinality(over)
                 /\ pass.survivors \cap over = {}
                 /\ pass.hpc = pass.hp0 - 20 * Cardinality(over)

\* a frame resolved collisions with the shield active while an enemy
\* overlapped the player
C7_ShieldedOverlap ==
    /\ pass.ran /\ pass.shield
    /\ \E j \in 1..Len(pass.pen) \ BulletKills :
           colliderect(pass.prect, EnemyRect(pass.pen[j]))

\* C8: whenever a contact with an enemy leaves the player's health <= 0, the
\* state at the end of that frame is GameOver.
C8_DeathIsGameOver ==
    (pass.ran /\ Touched # {} /\ pass.hpc <= 0) => state = "game_over"

\* C9: the level goes up, by exactly 1, in the frames of the game that leave
\* the enemy set empty after collision resolution and in no others; while
\* the level exceeds 15 the state is Victory or Menu; the level never
\* exceeds 16.
C9_LevelCompletion ==
    /\ [](level > 15 => state \in {"victory", "menu"})
    /\ [](level <= 16)
    /\ [][IF pass'.ran /\ frames' = frames + 1
          THEN level' = level
                        + (IF BulletKills' \cup Touched' = 1..Len(pass'.pen)
                           THEN 1 ELSE 0)
          ELSE level' = level \/ level' = 1]_vars

\* the frame that completed level 15
C9_Victory ==
    pass.ran /\ pass.lvl0 = 15 /\ level = 16 /\ state = "victory"

\* C10: right after spawn_enemies the enemy set holds exactly
\* D.enemies + L entities (base 5 / 8 / 12); the first is a Boss with health
\* 50 x D.health iff L is a multiple of 5, and no other is a Boss; the set
\* was empty when spawn_enemies was called.
C10_WaveSize ==
    pass.spawned =>
        LET base == [EASY |-> 5, NORMAL |-> 8, HARD |-> 12]
            mult == [EASY |-> 1, NORMAL |-> 2, HARD |-> 3]
        IN  /\ pass.presize = 0
            /\ Len(enemies) = base[difficulty] + level
            /\ (level % 5 = 0) <=>
                   (IsBoss(enemies[1]) /\ enemies[1].health = 50 * mult[difficulty])
            /\ \A i \in 2..Len(enemies) : ~IsBoss(enemies[i])
            /\ (level % 5 # 0) => ~IsBoss(enemies[1])

\* the frame that completed level 4 of a Normal game spawned the wave of
\* level 5: a Boss and 12 enemies
C10_BossWave ==
    /\ pass.ran /\ pass.spawned
    /\ difficulty = "NORMAL" /\ level = 5
    /\ Len(enemies) = 13 /\ IsBoss(enemies[1])

\* C11: whenever the state is GameOver or Victory, high_score >= score; and
\* while the program runs high_score never decreases: neither new_game nor
\* the return to the menu nor any other operation resets it.
C11_HighScore ==
    /\ [](state \in {"game_over", "victory"} => high_score >= score)
    /\ [][running' => high_score' >= high_score]_vars

\* a new game started after a game that set a high score
C11_KeptByNewGame ==
    running /\ state = "story" /\ score = 0 /\ high_score > 0

----------------------------------------------------------------------------
(* Player.shoot on its own: calls of shoot, the clock moving on between     *)
(* them by the milliseconds of a frame, and fire-rate upgrades.             *)

\* what clock.tick(60) lets pass in a frame on time, in whole milliseconds
ShootMs == {16, 17}

\* self.player.shoot(), from the KEYDOWN handler or the held key
ShootCall ==
    /\ Len(bullets) < MaxBullets
    /\ player' = Player_shoot(player, bullets)[1]
    /\ bullets' = Player_shoot(player, bullets)[2]
    /\ UNCHANGED <<state, difficulty, level, score, high_score, current_chapter,
                   enemies, quadtree, running, frames, pass, qtVars>>

\* pygame.time.get_ticks() moving on
ShootClock ==
    /\ \E dt \in ShootMs : player' = Elapse(player, dt)
    /\ UNCHANGED <<state, difficulty, level, score, high_score, current_chapter,
                   bullets, enemies, quadtree, running, frames, pass, qtVars>>

\* apply_upgrade("fire_rate")
ShootUpgrade ==
    /\ player.upgrades.fire_rate < MaxUpgrade
    /\ player' = apply_upgrade(player, "fire_rate")
    /\ UNCHANGED <<state, difficulty, level, score, high_score, current_chapter,
                   bullets, enemies, quadtree, running, frames, pass, qtVars>>

NextShoot ==
    \/ ShootCall
    \/ ShootClock
    \/ ShootUpgrade

SpecShoot == InitMid /\ [][NextShoot]_vars

\* C12: shoot emits a bullet only if more than shoot_delay / fire_rate
\* milliseconds (250, 250 / 1.2, ...) have passed since the last successful
\* shot, and then restarts that interval; a call that emits none leaves the
\* bullet set and last_shot as they were.
C12_ShootGate ==
    [][/\ bullets' # bullets =>
            /\ player.since_shot * (10 + 2 * player.upgrades.fire_rate) > 250 * 10
            /\ Len(bullets') = Len(bullets) + 1
            /\ SubSeq(bullets', 1, Len(bullets)) = bullets
            /\ player'.since_shot = 0
       /\ player'.since_shot < player.since_shot => bullets' # bullets]_vars

\* a second bullet, fired after a fire-rate upgrade
C12_SecondShot ==
    /\ Len(bullets) = 2
    /\ player.upgrades.fire_rate = 1
    /\ player.since_shot = 0

\* C13: every new game (from Menu, GameOver or Victory) sets the state to
\* Story with score 0, level 1, story cursor 0, a fresh Player (health 100,
\* no upgrade applied, shield inactive, no bullets) and a fresh first wave;
\* the game is entered from the story only when no chapter is left.
C13_NewGame ==
    [][/\ (running' /\ state' = "story" /\ state # "story") =>
            /\ state \in {"menu", "game_over", "victory"}
            /\ score' = 0 /\ level' = 1 /\ current_chapter' = 0
            /\ player'.health = 100 /\ player'.max_health = 100
            /\ \A t \in {"speed", "damage", "fire_rate", "shield"} :
                   player'.upgrades[t] = 0
            /\ ~player'.shield_active /\ player'.shield_timer = 0
            /\ player'.x = 375 /\ player'.y = 550
            /\ bullets' = <<>>
            /\ Len(enemies') = [EASY |-> 6, NORMAL |-> 9, HARD |-> 13][difficulty']
            /\ \A i \in 1..Len(enemies') :
                   /\ enemies'[i].kind = "enemy"
                   /\ enemies'[i].health = [EASY |-> 1, NORMAL |-> 2, HARD |-> 3][difficulty']
                   /\ enemies'[i].y < -40
       /\ (state' = "game" /\ state # "game") =>
            /\ state \in {"story", "upgrade"}
            /\ state = "story" => current_chapter' = 5]_vars

\* a Normal game begun from the menu, its story read to the end
C13_StoryDone ==
    /\ state = "game" /\ level = 1 /\ score = 0 /\ current_chapter = 5
    /\ difficulty = "NORMAL" /\ Len(enemies) = 9 /\ frames > 0

\* C14: in the Upgrade state, selecting t adds one increment (0.2) to
\* upgrades[t], leaves the other three, the score, the level, the player's
\* health and the enemy set unchanged, sets the state to the game, and
\* activates the shield (timer 0) iff t is the shield; anything else leaves
\* the state Upgrade and all of these unchanged.
C14_UpgradeSelection ==
    [][(state = "upgrade" /\ running') =>
          \/ /\ state' = "upgrade"
             /\ player'.upgrades = player.upgrades
             /\ player'.shield_active = player.shield_active
             /\ player'.shield_timer = player.shield_timer
             /\ player'.health = player.health
             /\ UNCHANGED <<score, level, enemies, bullets>>
          \/ \E t \in {"speed", "damage", "fire_rate", "shield"} :
                /\ state' = "game"
                /\ player'.upgrades[t] = player.upgrades[t] + 1
                /\ \A u \in {"speed", "damage", "fire_rate", "shield"} \ {t} :
                       player'.upgrades[u] = player.upgrades[u]
                /\ player'.health = player.health
                /\ UNCHANGED <<score, level, enemies, bullets>>
                /\ IF t = "shield"
                   THEN player'.shield_active /\ player'.shield_timer = 0
                   ELSE /\ player'.shield_active = player.shield_active
                        /\ player'.shield_timer = player.shield_timer]_vars

\* back in the game after the damage upgrade was selected
C14_DamageSelected ==
    /\ state = "game" /\ player.upgrades.damage = 1
    /\ ~player.shield_active /\ pass = NoPass

\* the transitions of the top-level state that the specification lists
ListedTransitions ==
    {<<"menu", "story">>, <<"story", "game">>, <<"game", "upgrade">>,
     <<"upgrade", "game">>, <<"game", "story">>, <<"game", "game_over">>,
     <<"game", "victory">>, <<"game_over", "menu">>, <<"victory", "menu">>,
     <<"game_over", "story">>, <<"victory", "story">>}

\* C15: the top-level state changes only along the listed transitions:
\* Menu->Story, Story->Playing, Playing->Upgrade, Upgrade->Playing,
\* Playing->Story, Playing->GameOver, Playing->Victory, GameOver/Victory->Menu
\* and GameOver/Victory->Story.
C15_OnlyListedTransitions ==
    [][(running' /\ state' # state) => <<state, state'>> \in ListedTransitions]_vars

\* C15, amended: a single input event or frame update changes the top-level
\* state only along the listed transitions or along Playing->Menu (escape
\* during the game).
C15_ListedOrEscape ==
    [][(running' /\ state' # state) =>
          <<state, state'>> \in ListedTransitions \cup {<<"game", "menu">>}]_vars

\* the menu, reached by escape from a game in progress before any frame
C15_EscapedFromGame ==
    running /\ state = "menu" /\ frames = 0 /\ level = 4

----------------------------------------------------------------------------
(* Long runs: frames of a game on time with no key held, from two states    *)
(* of a game in progress, far enough for the shield to run out and for the  *)
(* Boss to go through its patterns twice.  Frames outside the game only     *)
(* render and are followed for MaxFrames.                                   *)

MaxLongFrames == 352

\* Easy, level 1: the player has shot one enemy of the wave as it came into
\* the screen, the kill drew the upgrade screen and the shield was selected;
\* the other five enemies, drawn at the same point, are on their way down
ShieldGame ==
    [level |-> 1, score |-> 10,
     player |-> [Player EXCEPT !.upgrades.shield = 1, !.shield_active = TRUE,
                               !.since_shot = shoot_delay + 1],
     enemies |-> [i \in 1..5 |-> Enemy(Difficulty["EASY"], 100, 10)],
     before |-> [i \in 1..6 |-> IF i < 6 THEN Enemy(Difficulty["EASY"], 100, 8)
                                ELSE Enemy(Difficulty["EASY"], 390, -30)]]

\* Easy, level 5, right after the frame that completed level 4 (all of its
\* enemies shot, the last one at <<0, 486>>) and spawned the wave with the
\* Boss; the player stands in the lower left corner
BossGame ==
    [level |-> 5, score |-> ScoreOfWaves("EASY", 4),
     player |-> [Player EXCEPT !.x = 5, !.since_shot = 2 * (1000 \div FPS)],
     enemies |-> BossAttacks(spawn_enemies(<<>>, Difficulty["EASY"], 5, <<100, -100>>),
                             1, SpawnCount(Difficulty["EASY"], 5)),
     before |-> <<Enemy(Difficulty["EASY"], 0, 486)>>]

InitLong ==
    \E m \in {ShieldGame, BossGame} :
        /\ state = "game"
        /\ difficulty = "EASY"
        /\ level = m.level
        /\ score = m.score
        /\ high_score = 0
        /\ current_chapter = CHAPTERS + m.level \div 5
        /\ player = m.player
        /\ bullets = <<>>
        /\ enemies = m.enemies
        /\ quadtree = BuildTree(QuadTree(ScreenBoundary), m.before, 1)
        /\ running = TRUE
        /\ frames = 0
        /\ pass = NoPass
        /\ inserted = <<>>
        /\ qrect = Rect(0, 0, 0, 0)
        /\ found = <<>>

\* one iteration of the loop of Game.run, on time and with no key held
TickLong ==
    /\ running
    /\ frames < (IF state = "game" THEN MaxLongFrames ELSE MaxFrames)
    /\ frames' = frames + 1
    /\ IF state = "game" THEN FrameGame({}, 1000 \div FPS)
       ELSE FrameOther(1000 \div FPS)
    /\ UNCHANGED <<difficulty, running, qtVars>>

NextLong ==
    \/ TickLong
    \/ KeyShield
    \/ KeyEscape

SpecLong == InitLong /\ [][NextLong]_vars

\* C16: after any update no live bullet, travelling up (the player's) or
\* down (fired by a Boss), lies entirely outside the vertical bounds
\* [0, 600] of the screen.
C16_NoBulletOutside ==
    /\ \A i \in 1..Len(bullets) :
           ~(bullets[i].y + 15 < 0 \/ bullets[i].y > 600)
    /\ \A i \in 1..Len(enemies) :
           enemies[i].kind = "bullet" =>
               ~(enemies[i].y + 15 < 0 \/ enemies[i].y > 600)

\* the boss-fired bullets among the members of a Group
BossBullets(es) == {i \in 1..Len(es) : es[i].kind = "bullet"}

\* C17: in every frame of the game a living Boss's attack timer advances by
\* exactly one frame period; when that brings it to attack_delay (60 periods
\* of 1000 / 60 ms) it is reset to 0 and exactly one boss bullet is added in
\* that frame.
C17_AttackCadence ==
    [][(frames' = frames + 1 /\ state = "game" /\ state' = "game") =>
          \A i \in 1..Len(enemies) :
              (IsBoss(enemies[i]) /\ i <= Len(enemies') /\ IsBoss(enemies'[i])) =>
                  IF enemies[i].attack_timer + 1 >= 60
                  THEN /\ enemies'[i].attack_timer = 0
                       /\ Cardinality(BossBullets(enemies'))
                              = Cardinality(BossBullets(enemies)) + 1
                  ELSE /\ enemies'[i].attack_timer = enemies[i].attack_timer + 1
                       /\ Cardinality(BossBullets(enemies'))
                              <= Cardinality(BossBullets(enemies))]_vars

\* C18: a Boss's pattern follows Entrance -> SideToSide -> Circular ->
\* SideToSide -> ...: Entrance is never re-entered and is left only with
\* the top beyond 50, Circular is entered only from SideToSide, every
\* SideToSide phase lasts the same number of updates and so does every
\* Circular phase.
C18_PatternCycle ==
    /\ [](\A i \in 1..Len(enemies) :
              IsBoss(enemies[i]) =>
                  /\ Cardinality(enemies[i].side_lens) <= 1
                  /\ Cardinality(enemies[i].circle_lens) <= 1)
    /\ [][\A i \in 1..Len(enemies) :
              (IsBoss(enemies[i]) /\ i <= Len(enemies') /\ IsBoss(enemies'[i])) =>
                  /\ <<enemies[i].pattern, enemies'[i].pattern>>
                         \in {<<0, 0>>, <<0, 1>>, <<1, 1>>, <<1, 2>>, <<2, 2>>, <<2, 1>>}
                  /\ (enemies[i].pattern = 0 /\ enemies'[i].pattern # 0)
                         => enemies'[i].y > 50]_vars

\* C19: an active shield stays active through 180 frames of the game and
\* is deactivated, its timer back at 0, by the update after them; a frame
\* outside the game leaves the shield as it is; an inactive shield stays
\* inactive across a frame; any other step that touches the shield
\* (re)activates it with its timer at 0, which restarts the full duration.
C19_ShieldDuration ==
    /\ []((state = "game" /\ player.upgrades.shield > 0 /\ frames <= 180)
              => player.shield_active)
    /\ [][/\ (frames' = frames + 1 /\ state = "game") =>
                 IF player.shield_active
                 THEN IF player.shield_timer < 180
                      THEN /\ player'.shield_active
                           /\ player'.shield_timer = player.shield_timer + 1
                      ELSE /\ ~player'.shield_active
                           /\ player'.shield_timer = 0
                 ELSE /\ ~player'.shield_active
                      /\ player'.shield_timer = player.shield_timer
          /\ (frames' = frames + 1 /\ state # "game") =>
                 /\ player'.shield_active = player.shield_active
                 /\ player'.shield_timer = player.shield_timer
          /\ (frames' = frames /\
                  <<player'.shield_active, player'.shield_timer>>
                      # <<player.shield_active, player.shield_timer>>) =>
                 /\ player'.shield_active
                 /\ player'.shield_timer = 0]_vars

\* the shield activated at the start has run out after 181 frames
C19_ShieldExpired ==
    /\ state = "game" /\ frames = 181
    /\ player.upgrades.shield = 1
    /\ ~player.shield_active /\ player.shield_timer = 0

\* C20: in every reachable state an active shield implies upgrades.shield > 0;
\* while the shield upgrade has not been selected no step makes the shield
\* active, except the selection of that upgrade itself; a new game returns
\* the shield to locked and inactive.
C20_ShieldNeedsUpgrade ==
    /\ [](player.shield_active => player.upgrades.shield > 0)
    /\ [][/\ (player.upgrades.shield = 0 /\ player'.shield_active) =>
                 (state = "upgrade" /\ player'.upgrades.shield = 1)
          /\ (running' /\ state' = "story" /\ state # "story") =>
                 (player'.upgrades.shield = 0 /\ ~player'.shield_active)]_vars

\* the shield is running in the game after its upgrade was selected
C20_ShieldRunning ==
    /\ state = "game"
    /\ player.shield_active /\ player.shield_timer > 0
    /\ player.upgrades.shield > 0

\* C21: the player's health never exceeds max_health (100), and whenever the
\* state is Playing or Upgrade the player's health is strictly positive.
C21_HealthRange ==
    /\ player.max_health = 100
    /\ player.health <= player.max_health
    /\ state \in {"game", "upgrade"} => player.health > 0

\* a level was completed by a player whose heal of 20 was cut at max_health
C21_HealCapped ==
    /\ pass.ran /\ pass.completed
    /\ pass.hpc > 100 - 20
    /\ player.health = 100
    /\ state \in {"game", "upgrade"}

RECURSIVE StoredIn(_)

\* the objects held by the nodes of a tree, node by node
StoredIn(t) ==
    t.objects \o (IF t.divided
                  THEN StoredIn(t.kids[1]) \o StoredIn(t.kids[2])
                       \o StoredIn(t.kids[3]) \o StoredIn(t.kids[4])
                  ELSE <<>>)

RECURSIVE WithinCapacity(_)

\* no node of a tree holds more than 4 objects
WithinCapacity(t) ==
    /\ Len(t.objects) <= 4
    /\ t.divided => \A k \in 1..4 : WithinCapacity(t.kids[k])

\* C22: every object that insert accepted is stored in exactly one node of
\* the tree, no node holds more than 4 objects, and a query returns each
\* stored object at most once and only objects whose rectangle overlaps the
\* query rectangle.
C22_StoredOnceFoundOnce ==
    \E stored \in {StoredIn(quadtree)} :
        /\ Len(stored) = Len(inserted)
        /\ \A i \in 1..Len(inserted) :
               Cardinality({k \in 1..Len(stored) : stored[k] = inserted[i]}) = 1
        /\ WithinCapacity(quadtree)
        /\ \A m, n \in 1..Len(found) : m # n => found[m].id # found[n].id
        /\ \A k \in 1..Len(found) :
               /\ colliderect(qrect, found[k].rect)
               /\ \E i \in 1..Len(inserted) : inserted[i] = found[k]

\* the tree is divided and a query has returned several objects, one of
\* them held by a child
C22_FoundInChild ==
    /\ quadtree.divided
    /\ Len(inserted) >= 5
    /\ Len(found) >= 2
    /\ \E k \in 1..Len(found) : found[k].id >= 5

Regular(es) == SelectSeq(es, LAMBDA e : e.kind = "enemy")

====
